---- MODULE Spec2Model ----
(***************************************************************************)
(* Model of src/components/SelfMapVisualization.tsx: the effect that       *)
(* clears and rebuilds the chart when the data prop changes, the mouseover *)
(* and mouseout handlers of the points, and the d3 transitions they start. *)
(*                                                                         *)
(* Numbers are fixed point, in hundredths: a strength of 3 is 300, a       *)
(* radius of 12.6 is 1260, a coordinate of 340 px is 34000.  Strengths are *)
(* multiples of 0.5, so that every product and quotient below is exact.    *)
(***************************************************************************)
EXTENDS Integers, Sequences, FiniteSets, TLC

VARIABLES
    data,         \* the data prop last handed to the component
    container,    \* children of chartRef.current, in document order
    body,         \* elements appended to <body> (tooltips), in document order
    renders,      \* number of renders that built a chart
    hovered,      \* point whose mouseover came last with no mouseout since
    entered,      \* points whose own latest pointer event is a mouseover
    lastEvent,    \* "mount", "render", "noop", "mouseover" or "mouseout"
    events        \* pointer events counted since the last render

vars == <<data, container, body, renders, hovered, entered, lastEvent, events>>

----------------------------------------------------------------------------
(* Bounds of the model *)

MaxRenders == 2      \* renders of a non-null mapping in one behaviour
MaxBody == 2         \* elements in <body> at once
TransSteps == 2      \* frames one 200 ms transition is cut into
MaxEvents == 2       \* pointer events per render in the palette specification
MaxWide == 13        \* entries of the widest mapping (one more than the palette)

----------------------------------------------------------------------------
(* Geometry, scales and the two scalar transforms *)

margin == [top |-> 6000, right |-> 16000, bottom |-> 6000, left |-> 6000]
width == 90000 - margin.left - margin.right
height == 70000 - margin.top - margin.bottom

xScale == [domain |-> <<-1000, 1000>>, range |-> <<0, width>>]
yScale == [domain |-> <<-1000, 1000>>, range |-> <<height, 0>>]

\* d3.scaleLinear: normalise x over the domain, interpolate over the range.
ScaleLinear(scale, x) ==
    (scale.range[1] * (scale.domain[2] - x) + scale.range[2] * (x - scale.domain[1]))
        \div (scale.domain[2] - scale.domain[1])

schemeSet3 ==
    << "#8dd3c7", "#ffffb3", "#bebada", "#fb8072", "#80b1d3", "#fdb462",
       "#b3de69", "#fccde5", "#d9d9d9", "#bc80bd", "#ccebc5", "#ffed6f" >>

IndexOf(seq, x) == CHOOSE i \in 1..Len(seq) : seq[i] = x

\* The scale indexing its range by the length push returns, not by length - 1.
OrdinalValueByLength(domain, d) ==
    LET i == IndexOf(IF \E j \in 1..Len(domain) : domain[j] = d
                     THEN domain ELSE Append(domain, d), d)
    IN  schemeSet3[(i % Len(schemeSet3)) + 1]

\* d3.scaleOrdinal with an implicit domain: an unseen value is pushed on the
\* domain, and the colour is range[i % range.length] for its index i.
OrdinalDomain(domain, d) ==
    IF \E i \in 1..Len(domain) : domain[i] = d THEN domain ELSE Append(domain, d)

OrdinalValue(domain, d) ==
    LET i == IndexOf(OrdinalDomain(domain, d), d) - 1
    IN  schemeSet3[(i % Len(schemeSet3)) + 1]

\* The middle tier tested with > where the code has >=.
calculatePositionAbove(value, scale) ==
    IF value = 1000 THEN ScaleLinear(scale, 0)
    ELSE IF value > 500 THEN ScaleLinear(scale, value \div 2)
    ELSE ScaleLinear(scale, value)

calculatePosition(value, scale) ==
    IF value = 1000 THEN ScaleLinear(scale, 0)
    ELSE IF value >= 500 THEN ScaleLinear(scale, value \div 2)
    ELSE ScaleLinear(scale, value)

baseSize == 700

\* The tiers tested in the other order, so that 10 falls in the middle tier.
calculateSizeReordered(value) ==
    IF value >= 500 THEN (700 * 140) \div 100
    ELSE IF value = 1000 THEN (700 * 180) \div 100
    ELSE 700

calculateSize(value) ==
    IF value = 1000 THEN (baseSize * 180) \div 100
    ELSE IF value >= 500 THEN (baseSize * 140) \div 100
    ELSE baseSize

\* Radius the mouseover transition aims at.
hoverSize(value) == (calculateSize(value) * 120) \div 100

----------------------------------------------------------------------------
(* The data prop *)

NullData == [present |-> FALSE, entries |-> <<>>]
Mapping(entries) == [present |-> TRUE, entries |-> entries]
Entry(name, strength) == [name |-> name, Strength |-> strength]

\* Object.entries(data).map(...): one datum per key, in iteration order.
processedData(d) ==
    [i \in 1..Len(d.entries) |->
        [name |-> d.entries[i].name, strength |-> d.entries[i].Strength]]

----------------------------------------------------------------------------
(* The tree one run of the effect builds *)

RECURSIVE OrdinalDomainAfter(_, _)
\* The scale's domain after it was called on each of names in turn.
OrdinalDomainAfter(domain, names) ==
    IF names = <<>> THEN domain
    ELSE OrdinalDomainAfter(OrdinalDomain(domain, Head(names)), Tail(names))

NamesOf(pd) == [i \in 1..Len(pd) |-> pd[i].name]

\* makeGrid: two groups of class "grid" on the centre lines.
makeGrid ==
    << [class |-> "grid", transform |-> <<0, height \div 2>>, tickSize |-> -height],
       [class |-> "grid", transform |-> <<width \div 2, 0>>, tickSize |-> -width] >>

axes ==
    << [class |-> "axis", transform |-> <<0, height \div 2>>, tickSize |-> -500],
       [class |-> "axis", transform |-> <<width \div 2, 0>>, tickSize |-> -500] >>

titles ==
    << [x |-> width \div 2, y |-> -(margin.top \div 2), text |-> "Personal Identity Map"],
       [x |-> width \div 2, y |-> -(margin.top \div 2) + 2500,
        text |-> "Exploring the dimensions of self-identity and personal values"] >>

dotGlow(d) ==
    [class |-> "dot-glow",
     r  |-> calculateSize(d.strength) * 2,
     cx |-> calculatePosition(d.strength, xScale),
     cy |-> calculatePosition(d.strength, yScale),
     fill |-> "url(#point-gradient)"]

\* The solid circle.  trans is the circle's transition on "r": empty, or the
\* target radius of the one transition that is still to end.
dot(d, fill) ==
    [class |-> "dot",
     r  |-> calculateSize(d.strength),
     cx |-> calculatePosition(d.strength, xScale),
     cy |-> calculatePosition(d.strength, yScale),
     fill |-> fill,
     trans |-> <<>>]

\* One group of class "point-group" per datum.  colorScale(d.name) is first
\* called here, datum by datum, which fixes the scale's domain.
pointGroups(pd) ==
    [i \in 1..Len(pd) |->
        [class |-> "point-group",
         glow |-> dotGlow(pd[i]),
         dot |-> dot(pd[i],
                     OrdinalValue(OrdinalDomainAfter(<<>>, SubSeq(NamesOf(pd), 1, i - 1)),
                                  pd[i].name))]]

\* One group of class "legend-item" per datum, 25 px apart.
legendItems(pd, domain) ==
    [i \in 1..Len(pd) |->
        [class |-> "legend-item",
         transform |-> <<0, (i - 1) * 2500>>,
         rect |-> [width |-> 1800, height |-> 1800, fill |-> OrdinalValue(domain, pd[i].name)],
         text |-> pd[i].name]]

\* The svg the effect appends: its elements, and what the handlers' closure
\* holds (processedData, the colour scale's domain).  gen tells which render
\* created the element.
buildSvg(d, gen) ==
    LET pd == processedData(d)
        domain == OrdinalDomainAfter(<<>>, NamesOf(pd))
    IN  [gen |-> gen,
         width |-> width + margin.left + margin.right,
         height |-> height + margin.top + margin.bottom,
         grid |-> makeGrid,
         axis |-> axes,
         processedData |-> pd,
         colorDomain |-> domain,
         connections |-> <<>>,
         points |-> pointGroups(pd),
         legend |-> legendItems(pd, OrdinalDomainAfter(domain, NamesOf(pd))),
         text |-> titles]

\* The effect without its clearing step.
clearNothing(children) == children

\* d3.select(chartRef.current).selectAll("*").remove()
clearContainer(children) == <<>>

\* The body of the effect once its guard has passed.
renderInto(children, d, gen) == Append(clearContainer(children), buildSvg(d, gen))

NoHover == [svg |-> 0, point |-> 0]

----------------------------------------------------------------------------
(* What the pointer handlers build and remove *)

\* The div the mouseover handler appends to <body>.  The entries modelled
\* carry no Title, Beliefs or Style, so its html is the name and the strength.
tooltip(svg, d) ==
    [class |-> {"absolute", "pointer-events-none", "opacity-0"},
     owner |-> "self",
     gen |-> svg.gen,
     html |-> <<d.name, d.strength>>]

\* The same div, appended by another instance of the component on the page.
otherTooltip ==
    [class |-> {"absolute", "pointer-events-none", "opacity-0"},
     owner |-> "other",
     gen |-> 0,
     html |-> <<"other", 0>>]

\* The lines appended to the group instead of joined with the lines it holds.
connectionLinesAppended(existing, svg, d) ==
    LET others == SelectSeq(svg.processedData, LAMBDA item : item # d)
    IN  existing \o
        [j \in 1..Len(others) |->
            [class |-> "connection-line",
             x1 |-> calculatePosition(d.strength, xScale),
             y1 |-> calculatePosition(d.strength, yScale),
             x2 |-> calculatePosition(others[j].strength, xScale),
             y2 |-> calculatePosition(others[j].strength, yScale),
             stroke |-> OrdinalValue(svg.colorDomain, d.name)]]

\* lineGroup.selectAll(".connection-line").data(others).join("line"): the join
\* leaves exactly one line per datum, whatever lines there were.
connectionLines(existing, svg, d) ==
    LET others == SelectSeq(svg.processedData, LAMBDA item : item # d)
    IN  [j \in 1..Len(others) |->
            [class |-> "connection-line",
             x1 |-> calculatePosition(d.strength, xScale),
             y1 |-> calculatePosition(d.strength, yScale),
             x2 |-> calculatePosition(others[j].strength, xScale),
             y2 |-> calculatePosition(others[j].strength, yScale),
             stroke |-> OrdinalValue(svg.colorDomain, d.name)]]

\* d3.selectAll(".absolute").remove(): every element of the document that
\* has the class, whoever created it.
removeAbsolute(elements) == SelectSeq(elements, LAMBDA e : "absolute" \notin e.class)

\* A transition that waits for the circle's current one rather than pre-empt it,
\* and is dropped.
scheduleBehind(circle, target) ==
    [circle EXCEPT !.trans = IF @ = <<>> THEN <<target>> ELSE @]

\* selection.transition().duration(200).attr("r", target): the new transition
\* pre-empts the one the circle had (d3 interrupts or cancels it when the new
\* one starts, within a frame), and runs from the radius the circle has then.
schedule(circle, target) == [circle EXCEPT !.trans = <<target>>]

\* One frame of a transition towards target, a step of 1/TransSteps of the
\* hover enlargement at most.
frame(circle, d) ==
    LET target == Head(circle.trans)
        full == hoverSize(d.strength) - calculateSize(d.strength)
        step == (full + TransSteps - 1) \div TransSteps
    IN  IF circle.r < target
        THEN (IF target - circle.r < step THEN target ELSE circle.r + step)
        ELSE (IF circle.r - target < step THEN target ELSE circle.r - step)

----------------------------------------------------------------------------
(* Inputs *)

\* Strengths of the plotted domain [-10, 10], in steps of 0.5.
StrengthValues == {50 * h : h \in -20..20}

\* One entry of every strength, and the two entries of the documented example.
FnMappings ==
    {Mapping(<<Entry("A", v)>>) : v \in StrengthValues}
        \cup {Mapping(<<Entry("A", 300), Entry("B", 1000)>>)}

WideNames ==
    << "E01", "E02", "E03", "E04", "E05", "E06", "E07", "E08",
       "E09", "E10", "E11", "E12", "E13", "E14", "E15", "E16" >>

\* Mappings with more entries than the palette has colours.
WideMappings ==
    {Mapping([i \in 1..n |-> Entry(WideNames[i], 100 * i - 400)]) : n \in {2, MaxWide}}

\* Mappings whose points are hovered in every order.
HoverMappings ==
    { Mapping(<<Entry("A", 300)>>),
      Mapping(<<Entry("A", -1000), Entry("B", 700), Entry("C", 1000)>>) }

\* The values the data prop takes from one render to the next.
Mappings ==
    { NullData,
      Mapping(<<>>),
      Mapping(<<Entry("A", 300), Entry("B", 1000)>>),
      Mapping(<<Entry("B", 700), Entry("A", 300)>>) }

----------------------------------------------------------------------------
(* Actions *)

Init ==
    /\ data = NullData
    /\ container = <<>>
    /\ body = <<>>
    /\ renders = 0
    /\ hovered = NoHover
    /\ entered = {}
    /\ lastEvent = "mount"
    /\ events = 0

\* The effect, run because the data prop changed to d.  chartRef.current is
\* set whenever an effect runs, so the guard is decided by d alone.
useEffect(d) ==
    /\ data' = d
    /\ IF ~d.present
       THEN /\ lastEvent' = "noop"
            /\ UNCHANGED <<container, body, renders, hovered, entered, events>>
       ELSE /\ renders < MaxRenders
            /\ container' = renderInto(container, d, renders + 1)
            /\ renders' = renders + 1
            /\ hovered' = NoHover
            /\ entered' = {}
            /\ lastEvent' = "render"
            /\ events' = 0
            /\ UNCHANGED body

\* The mouseover handler of point i of the k-th child of the container.
mouseover(k, i) ==
    /\ k \in 1..Len(container)
    /\ i \in 1..Len(container[k].points)
    /\ Len(body) < MaxBody
    /\ LET svg == container[k]
           d == svg.processedData[i]
       IN  /\ body' = Append(body, tooltip(svg, d))
           /\ container' =
                [container EXCEPT
                    ![k].points[i].dot = schedule(@, hoverSize(d.strength)),
                    ![k].connections = connectionLines(@, svg, d),
                    ![k].colorDomain = OrdinalDomain(@, d.name)]
    /\ hovered' = [svg |-> k, point |-> i]
    /\ entered' = entered \cup {<<k, i>>}
    /\ lastEvent' = "mouseover"
    /\ UNCHANGED <<data, renders>>

\* The mouseout handler of point i of the k-th child of the container.
mouseout(k, i) ==
    /\ k \in 1..Len(container)
    /\ i \in 1..Len(container[k].points)
    /\ LET d == container[k].processedData[i]
       IN  container' =
                [container EXCEPT
                    ![k].points[i].dot = schedule(@, calculateSize(d.strength)),
                    ![k].connections = <<>>]
    /\ body' = removeAbsolute(body)
    /\ hovered' = NoHover
    /\ entered' = entered \ {<<k, i>>}
    /\ lastEvent' = "mouseout"
    /\ UNCHANGED <<data, renders>>

\* A frame of a circle's transition.
transitionTick(k, i) ==
    /\ k \in 1..Len(container)
    /\ i \in 1..Len(container[k].points)
    /\ LET c == container[k].points[i].dot
       IN  /\ c.trans # <<>>
           /\ c.r # Head(c.trans)
           /\ container' =
                [container EXCEPT ![k].points[i].dot.r =
                    frame(c, container[k].processedData[i])]
    /\ UNCHANGED <<data, body, renders, hovered, entered, lastEvent, events>>

\* A circle's transition ends, on its target value.
transitionEnd(k, i) ==
    /\ k \in 1..Len(container)
    /\ i \in 1..Len(container[k].points)
    /\ LET c == container[k].points[i].dot
       IN  /\ c.trans # <<>>
           /\ container' =
                [container EXCEPT ![k].points[i].dot =
                    [c EXCEPT !.r = Head(c.trans), !.trans = <<>>]]
    /\ UNCHANGED <<data, body, renders, hovered, entered, lastEvent, events>>

\* Another instance of the component on the page handles a mouseover ...
otherMouseover ==
    /\ Len(body) < MaxBody
    /\ body' = Append(body, otherTooltip)
    /\ UNCHANGED <<data, container, renders, hovered, entered, lastEvent, events>>

\* ... and a mouseout.
otherMouseout ==
    /\ body' = removeAbsolute(body)
    /\ UNCHANGED <<data, container, renders, hovered, entered, lastEvent, events>>

Transitions ==
    \E k \in 1..MaxRenders, i \in 1..MaxWide :
        transitionTick(k, i) \/ transitionEnd(k, i)

\* A pointer event on some point.
Pointer ==
    \E k \in 1..MaxRenders, i \in 1..MaxWide : mouseover(k, i) \/ mouseout(k, i)

Next ==
    \/ \E d \in Mappings : useEffect(d)
    \/ Pointer /\ UNCHANGED events
    \/ Transitions
    \/ otherMouseover
    \/ otherMouseout

Spec == Init /\ [][Next]_vars

\* The component mounted with the mapping d: the effect has run once.
Mounted(d) ==
    /\ data = d
    /\ container = renderInto(<<>>, d, 1)
    /\ body = <<>>
    /\ renders = 1
    /\ hovered = NoHover
    /\ entered = {}
    /\ lastEvent = "render"
    /\ events = 0

\* The component mounted with one entry of any strength of the domain.
InitFn == \E d \in FnMappings : Mounted(d)

NextFn ==
    \/ Pointer /\ UNCHANGED events
    \/ Transitions

SpecFn == InitFn /\ [][NextFn]_vars

\* The component mounted with one mapping, whose points receive pointer events
\* in every order.
InitHover == \E d \in HoverMappings : Mounted(d)

NextHover ==
    \/ Pointer /\ UNCHANGED events
    \/ Transitions
    \/ otherMouseover
    \/ otherMouseout

SpecHover == InitHover /\ [][NextHover]_vars

\* The component mounted with a mapping wider than the palette.  Pointer events
\* are counted, MaxEvents of them at most.
InitWide == \E d \in WideMappings : Mounted(d)

NextWide ==
    \/ events < MaxEvents /\ Pointer /\ events' = events + 1
    \/ Transitions

SpecWide == InitWide /\ [][NextWide]_vars

----------------------------------------------------------------------------
(* What the specification states, in closed form *)

\* p = 0 if v = 10, v/2 if 5 <= v < 10, v if v < 5
SpecPosition(v) == IF v = 1000 THEN 0 ELSE IF v >= 500 /\ v < 1000 THEN v \div 2 ELSE v

\* xScale(p) = (p + 10)/20 * 680 and yScale(p) = 580 - (p + 10)/20 * 580
SpecX(v) == ((SpecPosition(v) + 1000) * 680) \div 20
SpecY(v) == 58000 - ((SpecPosition(v) + 1000) * 580) \div 20

\* 7, 9.8 and 12.6 by strength tier
SpecSize(v) == IF v = 1000 THEN 1260 ELSE IF v >= 500 /\ v < 1000 THEN 980 ELSE 700

SelfTooltips == SelectSeq(body, LAMBDA e : e.owner = "self")
OtherElements == SelectSeq(body, LAMBDA e : e.owner # "self")

Points == {<<k, i>> \in (1..Len(container)) \X (1..MaxWide) : i <= Len(container[k].points)}

Quiescent == \A p \in Points : container[p[1]].points[p[2]].dot.trans = <<>>

----------------------------------------------------------------------------
(* Claims *)

\* C1: after a re-render with a non-null mapping no element of an earlier
\* render is left: every chart element and every tooltip of the component
\* belongs to the newest render.
C1_NoLeftoverElements ==
    /\ \A k \in 1..Len(container) : container[k].gen = renders
    /\ \A j \in 1..Len(SelfTooltips) : SelfTooltips[j].gen = renders

\* C2: while the latest mapping is null, no chart is shown in the container.
C2_NullShowsNoChart == ~data.present => container = <<>>

\* C3: while entry A of N is the hovered point there are exactly N-1 connector
\* lines, from A's position to the position of each other entry in turn, and
\* with no point hovered there are none.
C3_ConnectorLines ==
    /\ hovered # NoHover =>
        LET svg == container[hovered.svg]
            a == hovered.point
            rendered == svg.processedData
            n == Len(rendered)
            other(j) == IF j < a THEN j ELSE j + 1
        IN  /\ Len(svg.points) = n
            /\ Len(svg.connections) = n - 1
            /\ \A j \in 1..Len(svg.connections) :
                /\ svg.connections[j].x1 = SpecX(rendered[a].strength)
                /\ svg.connections[j].y1 = SpecY(rendered[a].strength)
                /\ svg.connections[j].x2 = SpecX(rendered[other(j)].strength)
                /\ svg.connections[j].y2 = SpecY(rendered[other(j)].strength)
    /\ hovered = NoHover => \A k \in 1..Len(container) : container[k].connections = <<>>

\* A point of three is hovered after a pointer-enter on another point that no
\* pointer-leave followed: two tooltips of this render are in the document.
C3_Witness ==
    /\ hovered # NoHover
    /\ Len(container[hovered.svg].points) = 3
    /\ Len(SelfTooltips) = 2
    /\ SelfTooltips[1].html # SelfTooltips[2].html
    /\ \A j \in 1..2 : SelfTooltips[j].gen = renders

\* C4, as claimed: after a pointer-leave, once the transitions have run, every
\* inner circle has its resting radius and no tooltip of the component remains.
C4_LeaveRestoresEveryPoint ==
    (lastEvent = "mouseout" /\ Quiescent) =>
        /\ \A p \in Points :
            container[p[1]].points[p[2]].dot.r =
                SpecSize(container[p[1]].processedData[p[2]].strength)
        /\ SelfTooltips = <<>>

\* C4, amended: after a pointer-leave, once the transitions have run, every
\* inner circle whose own latest pointer event is not a pointer-enter has its
\* resting radius, one whose latest event is a pointer-enter has 1.2 times it,
\* and no tooltip of the component remains.
C4_LeaveRestoresLeftPoints ==
    (lastEvent = "mouseout" /\ Quiescent) =>
        /\ \A p \in Points :
            container[p[1]].points[p[2]].dot.r =
                IF p \in entered
                THEN (SpecSize(container[p[1]].processedData[p[2]].strength) * 12) \div 10
                ELSE SpecSize(container[p[1]].processedData[p[2]].strength)
        /\ SelfTooltips = <<>>

\* The last event is a pointer-leave on one point, the transitions have run,
\* and another point's latest event is still a pointer-enter.
C4_Witness ==
    /\ lastEvent = "mouseout"
    /\ Quiescent
    /\ entered # {}
    /\ \E p \in Points : p \notin entered

\* C7: a render of N entries shows one svg with two grid groups, two axes, the
\* title and the subtitle, N point groups of one glow and one solid circle,
\* and N legend rows; N may be 0.
C7_ElementCounts ==
    data.present =>
        /\ Len(container) = 1
        /\ Len(container[1].grid) = 2
        /\ Len(container[1].axis) = 2
        /\ Len(container[1].text) = 2
        /\ Len(container[1].points) = Len(data.entries)
        /\ Len(container[1].legend) = Len(data.entries)
        /\ \A i \in 1..Len(container[1].points) :
            /\ container[1].points[i].glow.class = "dot-glow"
            /\ container[1].points[i].dot.class = "dot"

\* The empty mapping is rendered over the chart of a mapping of two entries.
C7_Witness ==
    /\ data = Mapping(<<>>)
    /\ renders > 1
    /\ Len(container) = 1
    /\ container[1].points = <<>>
    /\ container[1].legend = <<>>
    /\ Len(container[1].grid) = 2
    /\ SelfTooltips # <<>>

\* C8: right after rendering M the page shows what rendering M into a fresh
\* container shows: the same tree, and nothing of an earlier render.
C8_RenderAsFresh ==
    lastEvent = "render" =>
        /\ Len(container) = 1
        /\ [container[1] EXCEPT !.gen = 1] = buildSvg(data, 1)
        /\ SelfTooltips = <<>>

\* C10: a pointer-enter or pointer-leave on a point changes nothing but the
\* hovered circle's radius transition, the connector lines and the tooltips of
\* the component: the data, the rest of the chart and the elements the
\* component did not create stay as they are.
C10_HoverConfined ==
    [][Pointer =>
        /\ data' = data
        /\ OtherElements' = OtherElements
        /\ Len(container') = Len(container)
        /\ \A k \in 1..Len(container) :
            /\ [container[k] EXCEPT !.connections = <<>>, !.points = <<>>]
                 = [container'[k] EXCEPT !.connections = <<>>, !.points = <<>>]
            /\ \A i \in 1..Len(container[k].points) :
                /\ container'[k].points[i].glow = container[k].points[i].glow
                /\ [container'[k].points[i].dot EXCEPT !.trans = <<>>]
                     = [container[k].points[i].dot EXCEPT !.trans = <<>>]]_vars

\* C5: both circles of an entry of strength v in [-10, 10] are centred at
\* (xScale(p), yScale(p)) for the p of v's tier, the same p on both axes; an
\* entry of strength 10 is at the plot centre (340, 290).
C5_PointPosition ==
    \A p \in Points :
        LET g == container[p[1]].points[p[2]]
            v == container[p[1]].processedData[p[2]].strength
        IN  (v >= -1000 /\ v <= 1000) =>
                /\ g.glow.cx = SpecX(v) /\ g.glow.cy = SpecY(v)
                /\ g.dot.cx = SpecX(v) /\ g.dot.cy = SpecY(v)
                /\ v = 1000 => g.dot.cx = 34000 /\ g.dot.cy = 29000

\* An entry of the middle tier, of strength 5 or 9.5, is drawn at 340 + 17 v
\* and has been hovered and left.
C5_Witness ==
    /\ container # <<>>
    /\ lastEvent = "mouseout"
    /\ Len(container[1].points) = 1
    /\ container[1].processedData[1].strength \in {500, 950}
    /\ container[1].points[1].dot.cx = 17 * container[1].processedData[1].strength + 34000

\* C6: the inner circle rests at radius 7, 9.8 or 12.6 by strength tier, the
\* glow circle has twice that radius, and of {A: 3, B: 10} A has size 7 at
\* scale(3) and B size 12.6 at the origin.
C6_PointSize ==
    /\ \A p \in Points :
        LET g == container[p[1]].points[p[2]]
            v == container[p[1]].processedData[p[2]].strength
        IN  /\ g.glow.r = 2 * SpecSize(v)
            /\ (g.dot.trans = <<>> /\ p \notin entered) => g.dot.r = SpecSize(v)
    /\ (data = Mapping(<<Entry("A", 300), Entry("B", 1000)>>) /\ lastEvent = "render") =>
        /\ container[1].points[1].dot.r = 700
        /\ container[1].points[1].dot.cx = ScaleLinear(xScale, 300)
        /\ container[1].points[1].dot.cy = ScaleLinear(yScale, 300)
        /\ container[1].points[2].dot.r = 1260
        /\ container[1].points[2].dot.cx = ScaleLinear(xScale, 0)
        /\ container[1].points[2].dot.cy = ScaleLinear(yScale, 0)

\* The example {A: 3, B: 10} has been hovered and left, and rests again.
C6_Witness ==
    /\ data = Mapping(<<Entry("A", 300), Entry("B", 1000)>>)
    /\ lastEvent = "mouseout"
    /\ entered = {}
    /\ Quiescent
    /\ container[1].points[2].dot.r = 1260
    /\ container[1].points[2].glow.r = 2520

\* C9: the legend has one row per entry in iteration order, row i at offset
\* 25 * i (counting from 0) with the entry's name, and the entry at index i has
\* the colour palette[i mod 12] on its legend swatch, its point and the
\* connector lines drawn when it is hovered.
C9_LegendAndColour ==
    \A k \in 1..Len(container) :
        LET svg == container[k]
            colour(i) == schemeSet3[((i - 1) % 12) + 1]
        IN  /\ Len(svg.legend) = Len(data.entries)
            /\ \A i \in 1..Len(svg.legend) :
                /\ svg.legend[i].transform = <<0, 2500 * (i - 1)>>
                /\ svg.legend[i].text = data.entries[i].name
                /\ svg.legend[i].rect.fill = colour(i)
                /\ svg.points[i].dot.fill = colour(i)
            /\ hovered.svg = k =>
                \A j \in 1..Len(svg.connections) :
                    svg.connections[j].stroke = colour(hovered.point)

\* The thirteenth entry is hovered after a pointer-enter on another point: its
\* lines have the first colour of the palette again.
C9_Witness ==
    /\ hovered = [svg |-> 1, point |-> 13]
    /\ events = 2
    /\ Len(SelfTooltips) = 2
    /\ Len(container[1].connections) >= 12
    /\ container[1].connections[1].stroke = schemeSet3[1]
    /\ container[1].legend[13].rect.fill = schemeSet3[1]

====
